---- MODULE Spec2Model ----
(***************************************************************************)
(* Load-balancer teardown and recreation check of the e2e test patched by  *)
(* this repository: the cleanup sequence (deleteListeners,                 *)
(* cleanupTargetGroups, the security-group loop, the deletion wait) and    *)
(* the recreation poll.  The provider (AWS) and the service resolver are   *)
(* the environment: every call's outcome is chosen nondeterministically    *)
(* among the answers the provider can give in the current provider state.  *)
(*                                                                         *)
(* The test body is the "Enhanced Cleanup Sequence" (steps 1-4) followed   *)
(* by the recreation wait block; it runs after the test has deleted the    *)
(* load balancer, whose disappearance at the provider may lag.  An earlier *)
(* call site of cleanupTargetGroups (Fix.go, "Enhanced Cleanup Logic")     *)
(* only logs its error; the sequence modelled here wraps it in Expect.     *)
(* A describe of the old load balancer answers "ok" or, for any other      *)
(* provider failure, "error" while it exists, and "NotFound" once it is    *)
(* gone.  The SDK waiter returns nil on "NotFound", retries on "ok" until  *)
(* its attempts are used up, and returns any other error at once.          *)
(***************************************************************************)
EXTENDS Integers, Sequences, FiniteSets, TLC

\* ---------------------------------------------------------------- bounds
MaxListeners == 2
MaxTargetGroups == 2
MaxSecurityGroups == 3
\* attempts of the SDK waiter before it gives up (scaled down)
MaxWaitAttempts == 2
\* ticks that fit in the poll's timeout: 15 min / 30 s in the code (scaled down)
MaxTicks == 2

\* repositories of the org at GitHub
MaxRepos == 4
\* ListOptions.PerPage: 100 in the code (scaled down)
PerPage == 2
\* largest coverage Codecov reports (scaled down, whole percents)
MaxCoverage == 2

\* ---------------------------------------------------------------- names
oldLBName == "lb-old"
OtherLBName == "lb-new"
\* what DescribeLoadBalancers returns as LoadBalancers[0].LoadBalancerArn
LoadBalancerArn == "arn:lb-old"
\* names the resolver can return without an error
LBNames == {"", oldLBName, OtherLBName}

VARIABLES
    lbExists,           \* provider: the old load balancer is still there
    nameReused,         \* provider: another load balancer now carries the old name
    elbListeners,       \* provider: listener ARNs DescribeListeners returns
    elbTargetGroups,    \* provider: target-group ARNs DescribeTargetGroups returns
    orphanSecGroupIds,  \* input: the security groups to delete
    pc,                 \* position of the test body
    i,                  \* index of the running range loop
    listeners,          \* deleteListeners: listeners.Listeners
    output,             \* cleanupTargetGroups: output.TargetGroups
    calls,              \* history: the provider calls issued, in order
    outcome,            \* history: how each stage ended
    fatal,              \* the failed Expect, "none" while the test is alive
    waitAttempts,       \* describes done by WaitUntilLoadBalancerDeleted
    waitErr,            \* what WaitUntilLoadBalancerDeleted returned
    pollState,          \* state of the recreation poll
    ticks,              \* condition evaluations of the poll so far
    newLBName,          \* last tick: name returned by getLBForService
    resolveErr,         \* last tick: getLBForService returned an error
    describeErr,        \* last tick: result of the describe of the old LB
    oldLBExisted,       \* history: the old LB was still there on the last tick
    erredBefore,        \* history: every tick before the last one had a resolver error
    pollErr,            \* what PollUntilContextTimeout returned
    cancelled,          \* ctx has been cancelled
    ghRepos,            \* coverage report, GitHub: number of repositories of the org
    cpc,                \* coverage report: position of main
    optsPage,           \* getAllRepos: opts.Page
    allRepos,           \* getAllRepos: allRepos
    requested,          \* history: the pages requested and the NextPage answered
    repos,              \* main: repos, as getAllRepos returned it
    reposErr,           \* main: err, as getAllRepos returned it
    verbose,            \* main: the -v flag
    latest,             \* history: what Codecov answered for each repository
    coveredRepos,       \* main: coveredRepos
    notConfiguredRepos, \* main: notConfiguredRepos
    reports,            \* the repositories a detailed report was written for
    printed             \* the lines printed, in order

provider == <<lbExists, nameReused, elbListeners, elbTargetGroups, orphanSecGroupIds>>
teardown == <<pc, i, listeners, output, calls, outcome, fatal, waitAttempts, waitErr>>
lastTick == <<newLBName, resolveErr, describeErr, oldLBExisted, erredBefore>>
poller == <<pollState, ticks, lastTick, pollErr>>
coverage == <<ghRepos, cpc, optsPage, allRepos, requested, repos, reposErr, verbose,
              latest, coveredRepos, notConfiguredRepos, reports, printed>>
vars == <<provider, teardown, poller, cancelled, coverage>>

Stages == {"listeners", "targetGroups", "securityGroups", "wait"}

Ids(n) == [k \in 1..n |-> k]

Call(op, arg, res) == [op |-> op, arg |-> arg, res |-> res]

\* answers of a describe by the old name in the current provider state:
\* found, or a provider error while the old load balancer exists; found with
\* another ARN ("replaced") once another load balancer carries the name; not
\* found once it is gone
DescribeAnswers ==
    IF lbExists THEN {"ok", "error"}
    ELSE IF nameReused THEN {"replaced", "error"}
    ELSE {"NotFound"}

\* answers of a call keyed by the load balancer (its listeners, its target
\* groups): they fail with not-found once the load balancer is gone
ByLoadBalancerAnswers == IF lbExists THEN {"ok", "error"} ELSE {"NotFound"}

\* answers of DeleteListener: the listeners go with their load balancer
DeleteListenerAnswers == IF lbExists THEN {"ok", "error"} ELSE {"NotFound"}

\* answers of DeleteTargetGroup: a target group outlives the load balancer,
\* unless the provider has removed it with it
DeleteTargetGroupAnswers == IF lbExists THEN {"ok", "error"} ELSE {"ok", "error", "NotFound"}

\* the coverage report is another program: it is not running
CoverageIdle ==
    /\ ghRepos = 0
    /\ cpc = "notrunning"
    /\ optsPage = 0
    /\ allRepos = << >>
    /\ requested = << >>
    /\ repos = << >>
    /\ reposErr = FALSE
    /\ verbose = FALSE
    /\ latest = << >>
    /\ coveredRepos = << >>
    /\ notConfiguredRepos = << >>
    /\ reports = << >>
    /\ printed = << >>

Init ==
    /\ CoverageIdle
    /\ lbExists \in BOOLEAN
    /\ nameReused = FALSE
    /\ \E n \in 0..MaxListeners : elbListeners = Ids(n)
    /\ \E n \in 0..MaxTargetGroups : elbTargetGroups = Ids(n)
    /\ \E n \in 0..MaxSecurityGroups : orphanSecGroupIds = Ids(n)
    /\ pc = "deleteListeners"
    /\ i = 1
    /\ listeners = << >>
    /\ output = << >>
    /\ calls = <<Call("DeleteLoadBalancer", oldLBName, "ok")>>
    /\ outcome = [s \in Stages |-> "pending"]
    /\ fatal = "none"
    /\ waitAttempts = 0
    /\ waitErr = "pending"
    /\ pollState = "NOT_STARTED"
    /\ ticks = 0
    /\ newLBName = ""
    /\ resolveErr = FALSE
    /\ describeErr = "notcalled"
    /\ oldLBExisted = FALSE
    /\ erredBefore = TRUE
    /\ pollErr = "pending"
    /\ cancelled = FALSE

\* ------------------------------------------------ the test body's Expects
\* what a failed Expect(err).NotTo(HaveOccurred(), msg) does: the test body
\* stops there
ExpectFails(stage, msg) ==
    /\ pc' = "aborted"
    /\ fatal' = msg
    /\ outcome' = [outcome EXCEPT ![stage] = "failed"]
    /\ i' = 1

\* variant of ListenersReturn: the error of deleteListeners is not checked
ListenersReturnIgnoringErr(failed) ==
    /\ pc' = "cleanupTargetGroups"
    /\ outcome' = [outcome EXCEPT !["listeners"] = IF failed THEN "failed" ELSE "ok"]
    /\ i' = 1
    /\ UNCHANGED fatal

\* variant of ListenersReturn: the security groups are deleted before the
\* target groups are cleaned up
ListenersReturnToSecurityGroups(failed) ==
    IF failed
    THEN ExpectFails("listeners", "Failed to delete listeners")
    ELSE /\ pc' = "DeleteSecurityGroup"
         /\ outcome' = [outcome EXCEPT !["listeners"] = "ok"]
         /\ i' = 1
         /\ UNCHANGED fatal

\* err = deleteListeners(elbv2Svc, oldLBName); Expect(err).NotTo(HaveOccurred())
ListenersReturn(failed) ==
    IF failed
    THEN ExpectFails("listeners", "Failed to delete listeners")
    ELSE /\ pc' = "cleanupTargetGroups"
         /\ outcome' = [outcome EXCEPT !["listeners"] = "ok"]
         /\ i' = 1
         /\ UNCHANGED fatal

\* err = cleanupTargetGroups(elbv2Svc, oldLBName); Expect(err).NotTo(HaveOccurred())
TargetGroupsReturn(failed) ==
    IF failed
    THEN ExpectFails("targetGroups", "Failed to clean up target groups")
    ELSE /\ pc' = "DeleteSecurityGroup"
         /\ outcome' = [outcome EXCEPT !["targetGroups"] = "ok"]
         /\ i' = 1
         /\ UNCHANGED fatal

\* ------------------------------------------------------- deleteListeners
\* lbDesc, err := svc.DescribeLoadBalancers(Names: lbName); if err != nil { return err }
DescribeLoadBalancers ==
    /\ pc = "deleteListeners"
    /\ \E res \in DescribeAnswers :
         /\ calls' = Append(calls, Call("DescribeLoadBalancers", oldLBName, res))
         /\ IF res = "ok"
            THEN pc' = "DescribeListeners" /\ UNCHANGED <<i, outcome, fatal>>
            ELSE ListenersReturn(TRUE)
    /\ UNCHANGED <<listeners, output, waitAttempts, waitErr>>
    /\ UNCHANGED <<provider, poller, cancelled>>
    /\ UNCHANGED coverage

\* listeners, err := svc.DescribeListeners(LoadBalancerArn: lbDesc.LoadBalancers[0].LoadBalancerArn)
DescribeListeners ==
    /\ pc = "DescribeListeners"
    /\ \E res \in ByLoadBalancerAnswers :
         /\ calls' = Append(calls, Call("DescribeListeners", LoadBalancerArn, res))
         /\ IF res = "ok"
            THEN /\ listeners' = elbListeners
                 /\ pc' = "DeleteListener"
                 /\ i' = 1
                 /\ UNCHANGED <<outcome, fatal>>
            ELSE /\ ListenersReturn(TRUE)
                 /\ UNCHANGED listeners
    /\ UNCHANGED <<output, waitAttempts, waitErr>>
    /\ UNCHANGED <<provider, poller, cancelled>>
    /\ UNCHANGED coverage

\* variant of DeleteListener: a failed delete is remembered and the loop
\* goes on with the next listener
DeleteListenerContinuesAfterFailure ==
    /\ pc = "DeleteListener"
    /\ IF i > Len(listeners)
       THEN /\ ListenersReturn(\E k \in 1..Len(calls) :
                                 calls[k].op = "DeleteListener" /\ calls[k].res /= "ok")
            /\ UNCHANGED calls
       ELSE \E res \in DeleteListenerAnswers :
              /\ calls' = Append(calls, Call("DeleteListener", listeners[i], res))
              /\ i' = i + 1
              /\ UNCHANGED <<pc, outcome, fatal>>
    /\ UNCHANGED <<listeners, output, waitAttempts, waitErr>>
    /\ UNCHANGED <<provider, poller, cancelled>>
    /\ UNCHANGED coverage

\* variant of DeleteListener: the loop stops one listener short
DeleteListenerSkippingLast ==
    /\ pc = "DeleteListener"
    /\ IF i >= Len(listeners)
       THEN /\ ListenersReturn(FALSE)
            /\ UNCHANGED calls
       ELSE \E res \in DeleteListenerAnswers :
              /\ calls' = Append(calls, Call("DeleteListener", listeners[i], res))
              /\ IF res = "ok"
                 THEN i' = i + 1 /\ UNCHANGED <<pc, outcome, fatal>>
                 ELSE ListenersReturn(TRUE)
    /\ UNCHANGED <<listeners, output, waitAttempts, waitErr>>
    /\ UNCHANGED <<provider, poller, cancelled>>
    /\ UNCHANGED coverage

\* for _, listener := range listeners.Listeners { DeleteListener; if err != nil { return err } }
\* return nil
DeleteListener ==
    /\ pc = "DeleteListener"
    /\ IF i > Len(listeners)
       THEN /\ ListenersReturn(FALSE)
            /\ UNCHANGED calls
       ELSE \E res \in DeleteListenerAnswers :
              /\ calls' = Append(calls, Call("DeleteListener", listeners[i], res))
              /\ IF res = "ok"
                 THEN i' = i + 1 /\ UNCHANGED <<pc, outcome, fatal>>
                 ELSE ListenersReturn(TRUE)
    /\ UNCHANGED <<listeners, output, waitAttempts, waitErr>>
    /\ UNCHANGED <<provider, poller, cancelled>>
    /\ UNCHANGED coverage

\* --------------------------------------------------- cleanupTargetGroups
\* output, err := elbv2Svc.DescribeTargetGroups(LoadBalancerArn: aws.String(lbName))
\* the load balancer's name is passed where the ARN is expected
DescribeTargetGroups ==
    /\ pc = "cleanupTargetGroups"
    /\ \E res \in ByLoadBalancerAnswers :
         /\ calls' = Append(calls, Call("DescribeTargetGroups", oldLBName, res))
         /\ IF res = "ok"
            THEN /\ output' = elbTargetGroups
                 /\ pc' = "DeleteTargetGroup"
                 /\ i' = 1
                 /\ UNCHANGED <<outcome, fatal>>
            ELSE /\ TargetGroupsReturn(TRUE)
                 /\ UNCHANGED output
    /\ UNCHANGED <<listeners, waitAttempts, waitErr>>
    /\ UNCHANGED <<provider, poller, cancelled>>
    /\ UNCHANGED coverage

\* variant of DeleteTargetGroup: an empty list of target groups is an error
DeleteTargetGroupFailsOnEmpty ==
    /\ pc = "DeleteTargetGroup"
    /\ IF i > Len(output)
       THEN /\ TargetGroupsReturn(Len(output) = 0)
            /\ UNCHANGED calls
       ELSE \E res \in DeleteTargetGroupAnswers :
              /\ calls' = Append(calls, Call("DeleteTargetGroup", output[i], res))
              /\ IF res = "ok"
                 THEN i' = i + 1 /\ UNCHANGED <<pc, outcome, fatal>>
                 ELSE TargetGroupsReturn(TRUE)
    /\ UNCHANGED <<listeners, output, waitAttempts, waitErr>>
    /\ UNCHANGED <<provider, poller, cancelled>>
    /\ UNCHANGED coverage

\* for _, tg := range output.TargetGroups { DeleteTargetGroup; if err != nil { return fmt.Errorf } }
\* return nil
DeleteTargetGroup ==
    /\ pc = "DeleteTargetGroup"
    /\ IF i > Len(output)
       THEN /\ TargetGroupsReturn(FALSE)
            /\ UNCHANGED calls
       ELSE \E res \in DeleteTargetGroupAnswers :
              /\ calls' = Append(calls, Call("DeleteTargetGroup", output[i], res))
              /\ IF res = "ok"
                 THEN i' = i + 1 /\ UNCHANGED <<pc, outcome, fatal>>
                 ELSE TargetGroupsReturn(TRUE)
    /\ UNCHANGED <<listeners, output, waitAttempts, waitErr>>
    /\ UNCHANGED <<provider, poller, cancelled>>
    /\ UNCHANGED coverage

\* ------------------------------------------------------- security groups
\* variant of DeleteSecurityGroup: the loop is left at the first failure
DeleteSecurityGroupStopsAtFailure ==
    /\ pc = "DeleteSecurityGroup"
    /\ IF i > Len(orphanSecGroupIds)
       THEN /\ pc' = "WaitUntilLoadBalancerDeleted"
            /\ outcome' = [outcome EXCEPT !["securityGroups"] = "ok"]
            /\ i' = 1
            /\ UNCHANGED calls
       ELSE \E res \in {"ok", "error"} :
              /\ calls' = Append(calls, Call("DeleteSecurityGroup", orphanSecGroupIds[i], res))
              /\ i' = IF res = "ok" THEN i + 1 ELSE Len(orphanSecGroupIds) + 1
              /\ UNCHANGED <<pc, outcome>>
    /\ UNCHANGED <<fatal, listeners, output, waitAttempts, waitErr>>
    /\ UNCHANGED <<provider, poller, cancelled>>
    /\ UNCHANGED coverage

\* for _, sgID := range orphanSecGroupIds { DeleteSecurityGroup; if err != nil { log.Printf } }
DeleteSecurityGroup ==
    /\ pc = "DeleteSecurityGroup"
    /\ IF i > Len(orphanSecGroupIds)
       THEN /\ pc' = "WaitUntilLoadBalancerDeleted"
            /\ outcome' = [outcome EXCEPT !["securityGroups"] = "ok"]
            /\ i' = 1
            /\ UNCHANGED calls
       ELSE \E res \in {"ok", "error"} :
              /\ calls' = Append(calls, Call("DeleteSecurityGroup", orphanSecGroupIds[i], res))
              /\ i' = i + 1
              /\ UNCHANGED <<pc, outcome>>
    /\ UNCHANGED <<fatal, listeners, output, waitAttempts, waitErr>>
    /\ UNCHANGED <<provider, poller, cancelled>>
    /\ UNCHANGED coverage

\* ------------------------------------------------------ the deletion wait
\* variant of WaitReturn: the wait's error fails the test
WaitReturnExpectsNoErr(res) ==
    /\ waitErr' = res
    /\ IF res = "nil"
       THEN /\ pc' = "PollUntilContextTimeout"
            /\ pollState' = "WAITING_NEW_LB"
            /\ outcome' = [outcome EXCEPT !["wait"] = "ok"]
            /\ UNCHANGED fatal
       ELSE /\ pc' = "aborted"
            /\ fatal' = "LB deletion wait failed"
            /\ outcome' = [outcome EXCEPT !["wait"] = "failed"]
            /\ UNCHANGED pollState

\* err = elbSvc.WaitUntilLoadBalancerDeleted(...); if err != nil { log.Printf }
\* and the test body goes on to the recreation wait block
WaitReturn(res) ==
    /\ waitErr' = res
    /\ pc' = "PollUntilContextTimeout"
    /\ pollState' = "WAITING_NEW_LB"
    /\ outcome' = [outcome EXCEPT !["wait"] = IF res = "nil" THEN "ok" ELSE "warning"]
    /\ UNCHANGED fatal

\* one describe of the SDK waiter: the load balancer is gone (the waiter
\* returns nil), it is still there (the waiter retries until its attempts
\* are used up), or the describe fails otherwise (the waiter returns the error).
\* The call is made without ctx: the waiter does not see its cancellation.
WaitUntilLoadBalancerDeleted ==
    /\ pc = "WaitUntilLoadBalancerDeleted"
    /\ \E res \in DescribeAnswers :
         /\ calls' = Append(calls, Call("WaitUntilLoadBalancerDeleted", oldLBName, res))
         /\ waitAttempts' = waitAttempts + 1
         /\ CASE res = "NotFound" -> WaitReturn("nil")
              [] res = "error" -> WaitReturn("error")
              [] res \in {"ok", "replaced"} /\ waitAttempts + 1 >= MaxWaitAttempts
                   -> WaitReturn("ResourceNotReady")
              [] OTHER -> UNCHANGED <<pc, pollState, outcome, fatal, waitErr>>
    /\ UNCHANGED <<i, listeners, output>>
    /\ UNCHANGED <<provider, ticks, lastTick, pollErr, cancelled>>
    /\ UNCHANGED coverage

\* ---------------------------------------------------- the recreation poll
\* getLBForService: a name and no error, or an error (and then no name)
ResolverAnswers ==
    {[name |-> n, err |-> FALSE] : n \in LBNames} \cup {[name |-> "", err |-> TRUE]}

\* variant of Condition: the resolved name is compared with == where the
\* code has !=
ConditionNameEqualsOld(err, name, descr) ==
    IF err THEN FALSE
    ELSE IF descr \in {"ok", "replaced"} THEN FALSE
    ELSE name /= "" /\ name = oldLBName

\* the condition function's return value, from what its two calls returned:
\* err != nil -> false; describeErr == nil -> false;
\* else newLBName != "" && newLBName != oldLBName
Condition(err, name, descr) ==
    IF err THEN FALSE
    ELSE IF descr \in {"ok", "replaced"} THEN FALSE
    ELSE name /= "" /\ name /= oldLBName

\* variant of PollTick: the condition returns the resolver's error
\* (return false, err), which ends the poll
PollTickReturningResolverErr ==
    /\ pc = "PollUntilContextTimeout"
    /\ ~cancelled
    /\ ticks < MaxTicks
    /\ \E r \in ResolverAnswers :
         \E descr \in (IF r.err THEN {"notcalled"} ELSE DescribeAnswers) :
           /\ newLBName' = r.name
           /\ resolveErr' = r.err
           /\ describeErr' = descr
           /\ oldLBExisted' = lbExists
           /\ erredBefore' = (ticks = 0 \/ (erredBefore /\ resolveErr))
           /\ ticks' = ticks + 1
           /\ IF r.err
              THEN /\ pollState' = "FAILED"
                   /\ pollErr' = "resolver error"
                   /\ pc' = "done"
              ELSE IF Condition(r.err, r.name, descr)
              THEN /\ pollState' = "CONFIRMED"
                   /\ pollErr' = "nil"
                   /\ pc' = "done"
              ELSE UNCHANGED <<pollState, pollErr, pc>>
    /\ UNCHANGED <<i, listeners, output, calls, outcome, fatal, waitAttempts, waitErr>>
    /\ UNCHANGED <<provider, cancelled>>
    /\ UNCHANGED coverage

\* one evaluation of the condition function by the poll loop
PollTick ==
    /\ pc = "PollUntilContextTimeout"
    /\ ~cancelled
    /\ ticks < MaxTicks
    /\ \E r \in ResolverAnswers :
         \E descr \in (IF r.err THEN {"notcalled"} ELSE DescribeAnswers) :
           /\ newLBName' = r.name
           /\ resolveErr' = r.err
           /\ describeErr' = descr
           /\ oldLBExisted' = lbExists
           /\ erredBefore' = (ticks = 0 \/ (erredBefore /\ resolveErr))
           /\ ticks' = ticks + 1
           /\ IF Condition(r.err, r.name, descr)
              THEN /\ pollState' = "CONFIRMED"
                   /\ pollErr' = "nil"
                   /\ pc' = "done"
              ELSE UNCHANGED <<pollState, pollErr, pc>>
    /\ UNCHANGED <<i, listeners, output, calls, outcome, fatal, waitAttempts, waitErr>>
    /\ UNCHANGED <<provider, cancelled>>
    /\ UNCHANGED coverage

\* variant of PollDeadline: the timeout is noted and the loop goes on
PollDeadlineKeepsPolling ==
    /\ pc = "PollUntilContextTimeout"
    /\ ~cancelled
    /\ pollState' = "TIMED_OUT"
    /\ pollErr' = "DeadlineExceeded"
    /\ UNCHANGED <<pc, i, listeners, output, calls, outcome, fatal, waitAttempts, waitErr>>
    /\ UNCHANGED <<provider, ticks, lastTick, cancelled>>
    /\ UNCHANGED coverage

\* variant of PollDeadline: the timeout is not reported as an error
PollDeadlineReturnsNil ==
    /\ pc = "PollUntilContextTimeout"
    /\ ~cancelled
    /\ pollState' = "TIMED_OUT"
    /\ pollErr' = "nil"
    /\ pc' = "done"
    /\ UNCHANGED <<i, listeners, output, calls, outcome, fatal, waitAttempts, waitErr>>
    /\ UNCHANGED <<provider, ticks, lastTick, cancelled>>
    /\ UNCHANGED coverage

\* the 15 minutes are over: PollUntilContextTimeout returns the context's error
PollDeadline ==
    /\ pc = "PollUntilContextTimeout"
    /\ ~cancelled
    /\ pollState' = "TIMED_OUT"
    /\ pollErr' = "DeadlineExceeded"
    /\ pc' = "done"
    /\ UNCHANGED <<i, listeners, output, calls, outcome, fatal, waitAttempts, waitErr>>
    /\ UNCHANGED <<provider, ticks, lastTick, cancelled>>
    /\ UNCHANGED coverage

\* ctx is cancelled from outside while the deletion wait or the poll waits
\* for its next tick
Cancel ==
    /\ pc \in {"WaitUntilLoadBalancerDeleted", "PollUntilContextTimeout"}
    /\ ~cancelled
    /\ cancelled' = TRUE
    /\ UNCHANGED <<provider, teardown, poller>>
    /\ UNCHANGED coverage

\* the poll loop sees ctx.Done() and returns ctx.Err()
PollCancelled ==
    /\ pc = "PollUntilContextTimeout"
    /\ cancelled
    /\ pollState' = "CANCELLED"
    /\ pollErr' = "Canceled"
    /\ pc' = "done"
    /\ UNCHANGED <<i, listeners, output, calls, outcome, fatal, waitAttempts, waitErr>>
    /\ UNCHANGED <<provider, ticks, lastTick, cancelled>>
    /\ UNCHANGED coverage

\* ------------------------------------------------------------ environment
\* the deletion of the old load balancer becomes visible at the provider
LoadBalancerDisappears ==
    /\ lbExists
    /\ pc \notin {"done", "aborted"}
    /\ lbExists' = FALSE
    /\ UNCHANGED <<nameReused, elbListeners, elbTargetGroups, orphanSecGroupIds>>
    /\ UNCHANGED <<teardown, poller, cancelled>>
    /\ UNCHANGED coverage

\* a load balancer is created under the old name once the old one is gone: a
\* describe by name now finds it, under another ARN. Only the describes by
\* name of the deletion wait and of the poll can see it.
NameReused ==
    /\ ~lbExists
    /\ ~nameReused
    /\ pc \in {"WaitUntilLoadBalancerDeleted", "PollUntilContextTimeout"}
    /\ nameReused' = TRUE
    /\ UNCHANGED <<lbExists, elbListeners, elbTargetGroups, orphanSecGroupIds>>
    /\ UNCHANGED <<teardown, poller, cancelled>>
    /\ UNCHANGED coverage

Next ==
    \/ DescribeLoadBalancers
    \/ DescribeListeners
    \/ DeleteListener
    \/ DescribeTargetGroups
    \/ DeleteTargetGroup
    \/ DeleteSecurityGroup
    \/ WaitUntilLoadBalancerDeleted
    \/ PollTick
    \/ PollDeadline
    \/ Cancel
    \/ PollCancelled
    \/ LoadBalancerDisappears

Spec == Init /\ [][Next]_vars

\* the poll loop is driven by its timer and its context: it keeps running
PollStep == PollTick \/ PollDeadline \/ PollCancelled

LiveSpec == Spec /\ WF_vars(PollStep)

\* the same program against a provider that may give the old name to another
\* load balancer (Spec is the provider that never does)
NextWithReuse == Next \/ NameReused

ReuseSpec == Init /\ [][NextWithReuse]_vars

\* ------------------------------------------------- the coverage report
cleanup == <<provider, teardown, poller, cancelled>>

\* the cleanup sequence is another program: it is not running
CleanupIdle ==
    /\ lbExists = FALSE
    /\ nameReused = FALSE
    /\ elbListeners = << >>
    /\ elbTargetGroups = << >>
    /\ orphanSecGroupIds = << >>
    /\ pc = "notrunning"
    /\ i = 1
    /\ listeners = << >>
    /\ output = << >>
    /\ calls = << >>
    /\ outcome = [s \in Stages |-> "pending"]
    /\ fatal = "none"
    /\ waitAttempts = 0
    /\ waitErr = "pending"
    /\ pollState = "NOT_STARTED"
    /\ ticks = 0
    /\ newLBName = ""
    /\ resolveErr = FALSE
    /\ describeErr = "notcalled"
    /\ oldLBExisted = FALSE
    /\ erredBefore = TRUE
    /\ pollErr = "pending"
    /\ cancelled = FALSE

\* main after its flag and token checks, about to call getAllRepos
CoverageInit ==
    /\ CleanupIdle
    /\ ghRepos \in 0..MaxRepos
    /\ cpc = "getAllRepos"
    /\ optsPage = 0
    /\ allRepos = << >>
    /\ requested = << >>
    /\ repos = << >>
    /\ reposErr = FALSE
    /\ verbose \in BOOLEAN
    /\ latest = << >>
    /\ coveredRepos = << >>
    /\ notConfiguredRepos = << >>
    /\ reports = << >>
    /\ printed = << >>

\* GitHub: the pages of the org's repositories, PerPage on each; an org
\* without repositories has one empty page
NumPages == IF ghRepos = 0 THEN 1 ELSE (ghRepos + PerPage - 1) \div PerPage

\* GitHub: the page served for opts.Page; the zero value asks for the first
PageNumber(page) == IF page = 0 THEN 1 ELSE page

\* GitHub: the repository names on page p
PageRepos(p) ==
    LET first == (p - 1) * PerPage
        size == IF ghRepos - first > PerPage THEN PerPage
                ELSE IF ghRepos - first > 0 THEN ghRepos - first ELSE 0
    IN  [k \in 1..size |-> first + k]

\* GitHub: resp.NextPage of page p, 0 on the last page
NextPage(p) == IF p < NumPages THEN p + 1 ELSE 0

\* variant of getAllRepos: the next page is counted up from opts.Page
getAllReposCountingPages ==
    /\ cpc = "getAllRepos"
    /\ \E failed \in BOOLEAN :
         IF failed
         THEN /\ requested' = Append(requested, [page |-> optsPage, err |-> TRUE, next |-> 0])
              /\ repos' = << >>
              /\ reposErr' = TRUE
              /\ cpc' = "fatal"
              /\ UNCHANGED <<optsPage, allRepos>>
         ELSE LET p == PageNumber(optsPage) IN
              /\ requested' = Append(requested, [page |-> optsPage, err |-> FALSE, next |-> NextPage(p)])
              /\ allRepos' = allRepos \o PageRepos(p)
              /\ IF NextPage(p) = 0
                 THEN /\ repos' = allRepos'
                      /\ cpc' = "getRepoCoverage"
                      /\ UNCHANGED optsPage
                 ELSE /\ optsPage' = optsPage + 1
                      /\ UNCHANGED <<repos, cpc>>
              /\ UNCHANGED reposErr
    /\ UNCHANGED <<ghRepos, verbose, latest, coveredRepos, notConfiguredRepos, reports, printed>>
    /\ UNCHANGED cleanup

\* one pass of the for loop of getAllRepos: ListByOrg; on an error return
\* nil and the error, which main answers with log.Fatalf; else append the
\* names, and break and return allRepos if resp.NextPage == 0, else
\* opts.Page = resp.NextPage
getAllRepos ==
    /\ cpc = "getAllRepos"
    /\ \E failed \in BOOLEAN :
         IF failed
         THEN /\ requested' = Append(requested, [page |-> optsPage, err |-> TRUE, next |-> 0])
              /\ repos' = << >>
              /\ reposErr' = TRUE
              /\ cpc' = "fatal"
              /\ UNCHANGED <<optsPage, allRepos>>
         ELSE LET p == PageNumber(optsPage) IN
              /\ requested' = Append(requested, [page |-> optsPage, err |-> FALSE, next |-> NextPage(p)])
              /\ allRepos' = allRepos \o PageRepos(p)
              /\ IF NextPage(p) = 0
                 THEN /\ repos' = allRepos'
                      /\ cpc' = "getRepoCoverage"
                      /\ UNCHANGED optsPage
                 ELSE /\ optsPage' = NextPage(p)
                      /\ UNCHANGED <<repos, cpc>>
              /\ UNCHANGED reposErr
    /\ UNCHANGED <<ghRepos, verbose, latest, coveredRepos, notConfiguredRepos, reports, printed>>
    /\ UNCHANGED cleanup

\* what Codecov answers for a repository: the request fails (transport
\* error, status other than 200, undecodable body), there is no commit, or
\* the latest commit has a coverage
CodecovAnswers ==
    {[kind |-> "error", coverage |-> 0], [kind |-> "nocommits", coverage |-> 0]}
    \cup {[kind |-> "coverage", coverage |-> c] : c \in 0..MaxCoverage}

\* variant of getRepoCoverage: a coverage of 0 is reported as configured
getRepoCoverageZeroConfigured(a) ==
    IF a.kind /= "coverage" THEN [coverage |-> 0, configured |-> FALSE]
    ELSE [coverage |-> a.coverage, configured |-> TRUE]

\* getRepoCoverage: (0, false) on a failed request, on no commit and on a
\* coverage of 0; else (coverage, true)
getRepoCoverage(a) ==
    IF a.kind /= "coverage" THEN [coverage |-> 0, configured |-> FALSE]
    ELSE IF a.coverage = 0 THEN [coverage |-> 0, configured |-> FALSE]
    ELSE [coverage |-> a.coverage, configured |-> TRUE]

RepoCoverage(name, cov, conf) == [Name |-> name, Coverage |-> cov, Configured |-> conf]

\* one pass of for _, repo := range repos: the repository goes to
\* coveredRepos or to notConfiguredRepos; with -v a detailed report is
\* written for a covered one when fetching and writing it both succeed
RangeRepos ==
    /\ cpc = "getRepoCoverage"
    /\ LET n == Len(latest) + 1 IN
       IF n > Len(repos)
       THEN /\ cpc' = "sort"
            /\ UNCHANGED <<latest, coveredRepos, notConfiguredRepos, reports>>
       ELSE \E a \in CodecovAnswers :
              LET r == getRepoCoverage(a) IN
              /\ latest' = Append(latest, a)
              /\ UNCHANGED cpc
              /\ IF r.configured
                 THEN /\ coveredRepos' = Append(coveredRepos, RepoCoverage(repos[n], r.coverage, TRUE))
                      /\ UNCHANGED notConfiguredRepos
                      /\ IF verbose
                         THEN \E written \in BOOLEAN :
                                reports' = IF written THEN Append(reports, repos[n]) ELSE reports
                         ELSE UNCHANGED reports
                 ELSE /\ notConfiguredRepos' = Append(notConfiguredRepos, RepoCoverage(repos[n], 0, FALSE))
                      /\ UNCHANGED <<coveredRepos, reports>>
    /\ UNCHANGED <<ghRepos, optsPage, allRepos, requested, repos, reposErr, verbose, printed>>
    /\ UNCHANGED cleanup

\* the orders of 1..n
Orders(n) == {f \in [1..n -> 1..n] : \A a, b \in 1..n : a /= b => f[a] /= f[b]}

\* sort.Slice(coveredRepos, Coverage > Coverage): some order of the slice
\* in which no element has a smaller coverage than one after it; the sort
\* is not stable, elements of equal coverage come in any order
SortCoveredRepos ==
    /\ cpc = "sort"
    /\ \E f \in Orders(Len(coveredRepos)) :
         /\ \A a, b \in 1..Len(coveredRepos) :
               a < b => coveredRepos[f[a]].Coverage >= coveredRepos[f[b]].Coverage
         /\ coveredRepos' = [k \in 1..Len(coveredRepos) |-> coveredRepos[f[k]]]
    /\ cpc' = "print"
    /\ UNCHANGED <<ghRepos, optsPage, allRepos, requested, repos, reposErr, verbose,
                   latest, notConfiguredRepos, reports, printed>>
    /\ UNCHANGED cleanup

\* the two printing loops: "%s: %.2f%%" for each covered repository, then
\* "%s: Not Configured" for each of the others
PrintRepos ==
    /\ cpc = "print"
    /\ printed' =
          [k \in 1..Len(coveredRepos) |->
              [Name |-> coveredRepos[k].Name, Coverage |-> coveredRepos[k].Coverage,
               Line |-> "%s: %.2f%%"]]
          \o [k \in 1..Len(notConfiguredRepos) |->
              [Name |-> notConfiguredRepos[k].Name, Coverage |-> 0,
               Line |-> "%s: Not Configured"]]
    /\ cpc' = "exit"
    /\ UNCHANGED <<ghRepos, optsPage, allRepos, requested, repos, reposErr, verbose,
                   latest, coveredRepos, notConfiguredRepos, reports>>
    /\ UNCHANGED cleanup

CoverageNext ==
    \/ getAllRepos
    \/ RangeRepos
    \/ SortCoveredRepos
    \/ PrintRepos

CoverageSpec == CoverageInit /\ [][CoverageNext]_vars

\* ------------------------------------------------------ reading the history
\* (the vocabulary of the claims below; none of it is read by the actions)
\* positions in calls of the calls of the given operations
Idx(ops) == {k \in 1..Len(calls) : calls[k].op \in ops}

\* positions of the calls of op for the resource arg
IdxFor(op, arg) == {k \in 1..Len(calls) : calls[k].op = op /\ calls[k].arg = arg}

ListenerOps == {"DescribeLoadBalancers", "DescribeListeners", "DeleteListener"}
TargetGroupOps == {"DescribeTargetGroups", "DeleteTargetGroup"}
SecurityGroupOps == {"DeleteSecurityGroup"}
WaitOps == {"WaitUntilLoadBalancerDeleted"}

\* the stage an operation belongs to, as its position in the pipeline
Rank(op) ==
    CASE op = "DeleteLoadBalancer" -> 0
      [] op \in ListenerOps -> 1
      [] op \in TargetGroupOps -> 2
      [] op \in SecurityGroupOps -> 3
      [] OTHER -> 4

DeleteOps == {"DeleteListener", "DeleteTargetGroup", "DeleteSecurityGroup"}
DescribeOps == {"DescribeLoadBalancers", "DescribeListeners", "DescribeTargetGroups",
                "WaitUntilLoadBalancerDeleted"}

\* the calls of op that were answered with success
Deleted(op) == Cardinality({k \in Idx({op}) : calls[k].res = "ok"})

\* the calls of op that were answered with "already absent", with an error
Absent(op) == Cardinality({k \in Idx({op}) : calls[k].res = "NotFound"})
Failed(op) == Cardinality({k \in Idx({op}) : calls[k].res = "error"})

\* the last tick resolved a new load balancer: a name, and not the old one
TickResolvedNew ==
    /\ ticks > 0
    /\ ~resolveErr
    /\ newLBName /= ""
    /\ newLBName /= oldLBName

\* the confirmation condition of the specification on the last tick: a new
\* load balancer was resolved and the old one was gone at the provider
TickConfirms == TickResolvedNew /\ ~oldLBExisted

\* the same on what the tick observed: the describe of the old load balancer
\* returned an error, whichever
TickObservedConfirms == TickResolvedNew /\ describeErr \in {"NotFound", "error"}

\* ----------------------------------------------------------------- claims

C2_NoConfirmWhileOldExists ==
    (ticks > 0 /\ oldLBExisted) => pollState /= "CONFIRMED"

\* C3 (as claimed): the poll is CONFIRMED if and only if its last tick
\* resolved a non-empty name different from the old one and the old load
\* balancer was absent; after any other tick it is still WAITING_NEW_LB.
C3_ConfirmedIffNewAndOldAbsent ==
    /\ pollState = "CONFIRMED" <=> TickConfirms
    /\ (pc = "PollUntilContextTimeout" /\ ~TickConfirms) => pollState = "WAITING_NEW_LB"

\* What holds of the condition (C2, C3), on the answers the tick got: no
\* CONFIRMED after a describe that returned the old load balancer, and
\* CONFIRMED exactly when a new name was resolved and the describe returned
\* an error.
ConditionOnObservedAnswers ==
    /\ (ticks > 0 /\ describeErr = "ok") => pollState /= "CONFIRMED"
    /\ pollState = "CONFIRMED" <=> TickObservedConfirms
    /\ (pc = "PollUntilContextTimeout" /\ ~TickObservedConfirms) => pollState = "WAITING_NEW_LB"

\* C4 (as claimed): a failure of the target-group stage never aborts the
\* run nor makes it fatal.
C4_TargetGroupFailureNeverAborts ==
    outcome["targetGroups"] = "failed" => (pc /= "aborted" /\ fatal = "none")

\* C5: a failed DeleteListener makes deleteListeners return an error, and an
\* error of the listener stage is fatal: the test body stops, and no
\* target-group call, no security-group call, no deletion wait and no
\* recreation poll is ever made in that run.
C5_ListenerFailureIsFatal ==
    /\ (\E k \in Idx({"DeleteListener"}) : calls[k].res /= "ok")
          => outcome["listeners"] = "failed"
    /\ outcome["listeners"] = "failed" =>
          /\ pc = "aborted"
          /\ fatal = "Failed to delete listeners"
          /\ Idx(TargetGroupOps \cup SecurityGroupOps \cup WaitOps) = {}
          /\ pollState = "NOT_STARTED"

C5_Witness ==
    /\ \E k \in Idx({"DeleteListener"}) : calls[k].res = "ok"
    /\ \E k \in Idx({"DeleteListener"}) : calls[k].res /= "ok"
    /\ pc = "aborted"

\* C6 (as claimed): when the describe by name finds the load balancer gone,
\* the listener stage ends in success and nothing is fatal.
C6_AbsentLoadBalancerIsSuccess ==
    (\E k \in Idx({"DescribeLoadBalancers"}) : calls[k].res = "NotFound")
        => (outcome["listeners"] = "ok" /\ fatal = "none")

\* C7 (as claimed): once cleanupTargetGroups has returned after a successful
\* describe, every target group the describe returned has received exactly
\* one DeleteTargetGroup call.
C7_EveryTargetGroupGetsOneDelete ==
    (outcome["targetGroups"] /= "pending" /\ (\E k \in Idx({"DescribeTargetGroups"}) : calls[k].res = "ok"))
        => \A t \in 1..Len(output) : Cardinality(IdxFor("DeleteTargetGroup", output[t])) = 1

\* C8: no security group is deleted twice; when the loop is over every
\* supplied identifier has had its one DeleteSecurityGroup call, in the
\* order supplied, whichever of them failed; a failed DeleteSecurityGroup
\* never makes the run fatal, and the deletion wait runs after the loop.
C8_SecurityGroupsBestEffort ==
    /\ \A s \in 1..Len(orphanSecGroupIds) :
          Cardinality(IdxFor("DeleteSecurityGroup", orphanSecGroupIds[s])) <= 1
    /\ outcome["securityGroups"] /= "pending" =>
          /\ Len(SelectSeq(calls, LAMBDA c : c.op = "DeleteSecurityGroup")) = Len(orphanSecGroupIds)
          /\ \A s \in 1..Len(orphanSecGroupIds) :
                Cardinality(IdxFor("DeleteSecurityGroup", orphanSecGroupIds[s])) = 1
          /\ pc \in {"WaitUntilLoadBalancerDeleted", "PollUntilContextTimeout", "done"}
          /\ pc /= "WaitUntilLoadBalancerDeleted" => Idx(WaitOps) /= {}
    /\ (\E k \in Idx(SecurityGroupOps) : calls[k].res /= "ok") => fatal = "none"

C8_Witness ==
    /\ \E a, b \in Idx(SecurityGroupOps) : a < b /\ calls[a].res /= "ok"
    /\ outcome["securityGroups"] = "ok"
    /\ Idx(WaitOps) /= {}

\* C9: when the deletion wait gives up with the load balancer still there,
\* nothing is fatal: the stage is a warning and the recreation poll is
\* started.
C9_WaitDeadlineIsWarning ==
    waitErr = "ResourceNotReady" =>
        /\ fatal = "none"
        /\ outcome["wait"] = "warning"
        /\ pc \in {"PollUntilContextTimeout", "done"}
        /\ pollState /= "NOT_STARTED"

\* the poll that follows a wait that gave up reaches CONFIRMED
C9_Witness ==
    /\ waitErr = "ResourceNotReady"
    /\ pollState = "CONFIRMED"

\* C10 (as claimed): a poll that has ended is CONFIRMED or TIMED_OUT.
C10_EndsConfirmedOrTimedOut ==
    pc = "done" => pollState \in {"CONFIRMED", "TIMED_OUT"}

\* C10 (amended): a started poll whose context is not cancelled ends in
\* CONFIRMED or TIMED_OUT, after at most MaxTicks ticks; a poll that has
\* ended is in exactly one of CONFIRMED, TIMED_OUT and CANCELLED, the last
\* only if the context was cancelled; it is TIMED_OUT only when no tick
\* confirmed; CONFIRMED is reported as a nil error, TIMED_OUT as the
\* deadline error, and never the other way round.
C10_EndsConfirmedOrTimedOutUnlessCancelled ==
    /\ [](ticks <= MaxTicks)
    /\ [](pollState = "CONFIRMED" <=> pollErr = "nil")
    /\ [](pollState = "TIMED_OUT" <=> pollErr = "DeadlineExceeded")
    /\ [](pollState = "TIMED_OUT" => ~TickObservedConfirms)
    /\ [](pc = "done" => pollState \in {"CONFIRMED", "TIMED_OUT", "CANCELLED"})
    /\ [](pollState = "CANCELLED" => cancelled)
    /\ (pollState = "WAITING_NEW_LB") ~> (pollState \in {"CONFIRMED", "TIMED_OUT"} \/ cancelled)

C10_Witness ==
    /\ pollState = "TIMED_OUT"
    /\ ticks = MaxTicks
    /\ ~cancelled

\* C11: a resolver error on a tick never ends the poll: the tick leaves the
\* poll in WAITING_NEW_LB with no error returned, the old load balancer is
\* not even described on that tick, and the error is never what the poll
\* returns; a tick that confirms after resolver errors on all the ticks
\* before it ends the poll in CONFIRMED.
C11_ResolverErrorKeepsPolling ==
    /\ [][(ticks' = ticks + 1 /\ resolveErr') =>
            /\ pollState = "WAITING_NEW_LB"
            /\ pollState' = "WAITING_NEW_LB"
            /\ pc' = "PollUntilContextTimeout"
            /\ pollErr' = "pending"
            /\ describeErr' = "notcalled"]_vars
    /\ [](pollErr \in {"pending", "nil", "DeadlineExceeded", "Canceled"})
    /\ []((ticks > 1 /\ erredBefore /\ TickObservedConfirms) => pollState = "CONFIRMED")

\* every tick but the last had a resolver error, and the last one confirmed
C11_Witness ==
    /\ ticks = MaxTicks
    /\ ticks > 1
    /\ erredBefore
    /\ pollState = "CONFIRMED"

\* C12: when deleteListeners succeeds on a load balancer with N listeners,
\* it has issued exactly N DeleteListener calls, one for each listener ARN
\* that DescribeListeners returned, none twice and none left out, all of
\* them answered with success; and it fails only if one of its calls failed.
C12_OneDeletePerListener ==
    /\ outcome["listeners"] = "ok" =>
          /\ listeners = elbListeners
          /\ Cardinality(Idx({"DeleteListener"})) = Len(listeners)
          /\ \A l \in 1..Len(listeners) :
                Cardinality(IdxFor("DeleteListener", listeners[l])) = 1
          /\ \A k \in Idx(ListenerOps) : calls[k].res = "ok"
    /\ outcome["listeners"] = "failed" =>
          \E k \in Idx(ListenerOps) : calls[k].res /= "ok"

\* deleteListeners has succeeded on a load balancer with the most listeners
C12_Witness ==
    /\ outcome["listeners"] = "ok"
    /\ Len(elbListeners) = MaxListeners

C14_AbsentLoadBalancerReapsNothing ==
    /\ (\E k \in Idx({"DescribeTargetGroups"}) : calls[k].res = "NotFound") =>
          /\ outcome["targetGroups"] = "ok"
          /\ Idx({"DeleteTargetGroup"}) = {}
    /\ (\E k \in Idx({"DescribeLoadBalancers"}) : calls[k].res = "NotFound") =>
          /\ fatal = "none"
          /\ Idx(DeleteOps) = {}

\* C15: with two listeners, one target group and three security groups,
\* every delete answered with success, the wait returning because the load
\* balancer is gone (and its name not taken by another one) and a tick on
\* which the resolver returns another name,
\* the poll is CONFIRMED, exactly two listeners, one target group and three
\* security groups were deleted, no stage ended in a warning and nothing
\* was fatal.
C15_EndToEnd ==
    ( /\ Len(elbListeners) = 2 /\ Len(elbTargetGroups) = 1 /\ Len(orphanSecGroupIds) = 3
      /\ \A k \in Idx(DeleteOps) : calls[k].res = "ok"
      /\ waitErr = "nil"
      /\ ~nameReused
      /\ TickResolvedNew ) =>
        /\ pollState = "CONFIRMED"
        /\ pollErr = "nil"
        /\ Deleted("DeleteListener") = 2
        /\ Deleted("DeleteTargetGroup") = 1
        /\ Deleted("DeleteSecurityGroup") = 3
        /\ Cardinality(Idx(DeleteOps)) = 6
        /\ \A st \in Stages : outcome[st] = "ok"
        /\ fatal = "none"

\* the scenario has run to its end
C15_Witness ==
    /\ Len(elbListeners) = 2 /\ Len(elbTargetGroups) = 1 /\ Len(orphanSecGroupIds) = 3
    /\ Deleted("DeleteListener") = 2
    /\ Deleted("DeleteTargetGroup") = 1
    /\ Deleted("DeleteSecurityGroup") = 3
    /\ waitErr = "nil"
    /\ newLBName = OtherLBName
    /\ pollState = "CONFIRMED"
    /\ pc = "done"

\* C16 (as claimed): once ctx is cancelled, neither the deletion wait nor
\* the recreation poll starts another call: no describe is added to the
\* history and no tick is evaluated.
C16_NoCallAfterCancel ==
    [][cancelled => (calls' = calls /\ ticks' = ticks)]_vars

\* C17 (as claimed): every DescribeListeners and DescribeTargetGroups call
\* is issued with the ARN of the load balancer, never its name, and after
\* a successful DescribeLoadBalancers of the same stage.
C17_ArnKeyedCallsUseResolvedArn ==
    \A k \in Idx({"DescribeListeners", "DescribeTargetGroups"}) :
        /\ calls[k].arg = LoadBalancerArn
        /\ \E j \in 1..(k - 1) :
              /\ calls[j].op = "DescribeLoadBalancers"
              /\ calls[j].res = "ok"
              /\ \A m \in (j + 1)..k : Rank(calls[m].op) = Rank(calls[k].op)

\* C18 (as claimed): a delete answered with "already absent" counts as a
\* success: the listener stage, or the target-group stage, whose delete got
\* that answer has not failed, and nothing is fatal because of it.
C18_AlreadyAbsentIsSuccess ==
    /\ (\E k \in Idx({"DeleteListener"}) : calls[k].res = "NotFound") =>
          /\ outcome["listeners"] /= "failed"
          /\ fatal /= "Failed to delete listeners"
    /\ (\E k \in Idx({"DeleteTargetGroup"}) : calls[k].res = "NotFound") =>
          outcome["targetGroups"] /= "failed"

\* C19 (as claimed): no DeleteListener call comes after the
\* DeleteLoadBalancer call of its load balancer.
C19_NoListenerDeleteAfterLoadBalancerDelete ==
    \A j, k \in 1..Len(calls) :
        (calls[j].op = "DeleteLoadBalancer" /\ calls[k].op = "DeleteListener") => k < j

\* C20 (as claimed): a describe by name that finds a load balancer with
\* another ARN than the one deleteListeners resolved counts as the old load
\* balancer being gone: the deletion wait returns success on it, and a tick
\* that gets this answer and a new name from the resolver confirms.
C20_OtherArnIsGone ==
    /\ \A k \in Idx(WaitOps) : calls[k].res = "replaced" => waitErr = "nil"
    /\ (describeErr = "replaced" /\ TickResolvedNew) => pollState = "CONFIRMED"

\* C21 (as claimed): when teardown has ended, each delete that was
\* attempted is counted exactly once, as deleted, already absent or failed,
\* and a fatal error is recorded if and only if the listener stage failed.
C21_OutcomeAccounts ==
    pc \in {"aborted", "PollUntilContextTimeout", "done"} =>
        /\ \A op \in DeleteOps :
              Deleted(op) + Absent(op) + Failed(op) = Cardinality(Idx({op}))
        /\ fatal /= "none" <=> outcome["listeners"] = "failed"

\* C22 (as claimed): a tick whose describe of the old load balancer failed
\* for another reason than absence does not confirm: the poll is not
\* CONFIRMED after it, and it is still WAITING_NEW_LB while the poll runs.
C22_TransientDescribeErrorIsNotAbsence ==
    (ticks > 0 /\ describeErr = "error") =>
        /\ pollState /= "CONFIRMED"
        /\ pc = "PollUntilContextTimeout" => pollState = "WAITING_NEW_LB"

\* C23: deleteListeners stops at the first DeleteListener that fails: the
\* failed call is the last call of the listener stage, the calls before it
\* are the successful deletes of the listeners before it in the described
\* list, in order, no call is issued for the listeners after it, none of
\* the calls re-creates a listener, and the stage has failed.
C23_StopsAtFirstFailedDelete ==
    \A k \in Idx({"DeleteListener"}) :
        /\ calls[k].arg = listeners[Cardinality({j \in Idx({"DeleteListener"}) : j <= k})]
        /\ calls[k].res /= "ok" =>
              /\ \A j \in Idx(ListenerOps) : j <= k
              /\ \A j \in Idx(ListenerOps) : j < k => calls[j].res = "ok"
              /\ outcome["listeners"] = "failed"
              /\ \A j \in 1..Len(calls) :
                    calls[j].op \in {"DeleteLoadBalancer"} \cup DescribeOps \cup DeleteOps

\* the delete of the first of several listeners has failed: the others
\* are left without a call
C23_Witness ==
    /\ Len(listeners) > 1
    /\ Cardinality(Idx({"DeleteListener"})) = 1
    /\ \E k \in Idx({"DeleteListener"}) : calls[k].res /= "ok"
    /\ pc = "aborted"

\* C24: CONFIRMED and TIMED_OUT are absorbing: once the poll is in one of
\* them no tick is evaluated, no call is issued, and neither the state nor
\* what the poll returned changes; the two are told apart by what the poll
\* returned, and the poll is over in both.
C24_TerminalStatesAbsorb ==
    /\ [][(pollState \in {"CONFIRMED", "TIMED_OUT"}) =>
            (/\ pollState' = pollState
             /\ pollErr' = pollErr
             /\ ticks' = ticks
             /\ lastTick' = lastTick
             /\ calls' = calls
             /\ pc' = pc)]_vars
    /\ [](pollState \in {"CONFIRMED", "TIMED_OUT"} => pc = "done")
    /\ [](~(pollErr = "nil" /\ pollState = "TIMED_OUT"))
    /\ [](~(pollErr = "DeadlineExceeded" /\ pollState = "CONFIRMED"))

\* the poll has ended with ticks left and with the old load balancer
\* still there
C24_Witness ==
    /\ pollState \in {"CONFIRMED", "TIMED_OUT"}
    /\ ticks < MaxTicks
    /\ lbExists

\* C25: getAllRepos requests page after page: the first request carries
\* the zero page, each later one the NextPage of the response before it;
\* it goes on while the responses carry a NextPage other than 0 and stops
\* at the first that carries 0, and then returns the names of all the
\* pages, one after the other in page order, each page once. A failed
\* request is the last one: the error is returned with no list, whatever
\* was fetched before.
C25_FollowsNextPage ==
    /\ requested /= << >> => requested[1].page = 0
    /\ \A k \in 1..(Len(requested) - 1) :
          /\ ~requested[k].err
          /\ requested[k].next /= 0
          /\ requested[k + 1].page = requested[k].next
    /\ cpc = "getAllRepos" =>
          (requested = << >> \/ requested[Len(requested)].next /= 0)
    /\ cpc \in {"getRepoCoverage", "sort", "print", "exit"} =>
          /\ ~requested[Len(requested)].err
          /\ requested[Len(requested)].next = 0
          /\ Len(requested) = NumPages
          /\ repos = Ids(ghRepos)
          /\ ~reposErr
    /\ cpc = "fatal" =>
          /\ requested[Len(requested)].err
          /\ reposErr
          /\ repos = << >>
    /\ reposErr => cpc = "fatal"

\* all the pages of an org with the most repositories have been fetched
C25_Witness ==
    /\ cpc = "getRepoCoverage"
    /\ ghRepos = MaxRepos
    /\ Len(requested) > 1
    /\ Len(repos) = MaxRepos

\* the positions in list s of the repository name
Places(s, name) == {k \in 1..Len(s) : s[k].Name = name}

\* C26: every repository getAllRepos returned that the main loop has
\* handled is in exactly one of coveredRepos and notConfiguredRepos, once:
\* in coveredRepos, with its coverage, when Codecov answered a coverage
\* other than 0 for its latest commit, and in notConfiguredRepos otherwise,
\* a coverage of exactly 0 included. After the sort coveredRepos is in
\* non-increasing order of coverage, and what is printed is coveredRepos
\* in that order followed by notConfiguredRepos: every repository is
\* printed exactly once.
C26_EveryRepoInOneList ==
    /\ Len(coveredRepos) + Len(notConfiguredRepos) = Len(latest)
    /\ \A k \in 1..Len(latest) :
          LET covered == latest[k].kind = "coverage" /\ latest[k].coverage > 0 IN
          /\ Cardinality(Places(coveredRepos, repos[k])) = (IF covered THEN 1 ELSE 0)
          /\ Cardinality(Places(notConfiguredRepos, repos[k])) = (IF covered THEN 0 ELSE 1)
          /\ \A j \in Places(coveredRepos, repos[k]) :
                coveredRepos[j].Coverage = latest[k].coverage
    /\ cpc \in {"sort", "print", "exit"} => Len(latest) = Len(repos)
    /\ cpc \in {"print", "exit"} =>
          \A a, b \in 1..Len(coveredRepos) :
              a < b => coveredRepos[a].Coverage >= coveredRepos[b].Coverage
    /\ cpc /= "exit" => printed = << >>
    /\ cpc = "exit" =>
          /\ Len(printed) = Len(repos)
          /\ \A k \in 1..Len(repos) : Cardinality(Places(printed, repos[k])) = 1
          /\ \A k \in 1..Len(coveredRepos) :
                /\ printed[k].Name = coveredRepos[k].Name
                /\ printed[k].Coverage = coveredRepos[k].Coverage
                /\ printed[k].Line = "%s: %.2f%%"
          /\ \A k \in 1..Len(notConfiguredRepos) :
                /\ printed[Len(coveredRepos) + k].Name = notConfiguredRepos[k].Name
                /\ printed[Len(coveredRepos) + k].Line = "%s: Not Configured"

\* the report is printed: the sort has moved a repository of larger
\* coverage before one that was fetched before it, and a repository whose
\* latest commit has a coverage of 0 is printed as not configured
C26_Witness ==
    /\ cpc = "exit"
    /\ Len(coveredRepos) > 1
    /\ coveredRepos[1].Name > coveredRepos[2].Name
    /\ coveredRepos[1].Coverage > coveredRepos[2].Coverage
    /\ \E k \in 1..Len(latest) :
          /\ latest[k] = [kind |-> "coverage", coverage |-> 0]
          /\ Places(notConfiguredRepos, repos[k]) /= {}

====
